---- MODULE Spec2Model ----
(***************************************************************************)
(* Model of equuleus: the protocol loader (protocols / visit_dirs) and the *)
(* two drivers that replay protocol lines on a serial channel              *)
(* (Pseudo::start and publisher), src/src/tty.rs, started by               *)
(* launch, src/src/app.rs.                                                 *)
(*                                                                         *)
(* The file system is read lazily, as the code reads it: fs::read_dir and  *)
(* BufReader::lines are iterators, so each step of the walk draws the next *)
(* directory entry or the next line from the environment.                  *)
(***************************************************************************)
EXTENDS Integers, Sequences, FiniteSets, TLC

(* ------------------------------ bounds --------------------------------- *)
\* most lines one protocol file yields
MaxLines == 3
\* most directory entries (files and subdirectories) the tree holds
MaxEntries == 3
\* the configured interval ranges over 1..MaxInterval (abstract ticks)
MaxInterval == 2
\* a sleep may last up to Jitter ticks longer than asked
Jitter == 1

(* ------------------------------ text ----------------------------------- *)
\* the characters of the protocol files are "a", "b", " ", "\t" and "e'",
\* which stands for U+00E9

\* char::is_whitespace, as used by str::trim
IsWhitespace(c) == c \in {" ", "\t"}

RECURSIVE TrimStart(_)
TrimStart(s) ==
  IF s = <<>> THEN s
  ELSE IF IsWhitespace(Head(s)) THEN TrimStart(Tail(s)) ELSE s

RECURSIVE TrimEnd(_)
TrimEnd(s) ==
  IF s = <<>> THEN s
  ELSE IF IsWhitespace(s[Len(s)]) THEN TrimEnd(SubSeq(s, 1, Len(s) - 1)) ELSE s

\* a mutant of trim: trims the front only
trim_front_only(s) == TrimStart(s)

\* line.trim() of protocols
trim(s) == TrimEnd(TrimStart(s))

\* the UTF-8 encoding of one character
Utf8(c) ==
  CASE c = "a" -> <<97>>
    [] c = "b" -> <<98>>
    [] c = " " -> <<32>>
    [] c = "\t" -> <<9>>
    [] c = "e'" -> <<195, 169>>

\* it.as_bytes(): the UTF-8 bytes of a string
RECURSIVE as_bytes(_)
as_bytes(s) == IF s = <<>> THEN <<>> ELSE Utf8(Head(s)) \o as_bytes(Tail(s))

\* std::str::from_utf8(..).is_ok(), for sequences of one- and two-byte forms
RECURSIVE from_utf8_ok(_)
from_utf8_ok(bs) ==
  IF bs = <<>> THEN TRUE
  ELSE IF Head(bs) < 128 THEN from_utf8_ok(Tail(bs))
  ELSE IF Head(bs) >= 194 /\ Head(bs) <= 223
    THEN /\ Len(bs) >= 2
         /\ bs[2] >= 128 /\ bs[2] <= 191
         /\ from_utf8_ok(Tail(Tail(bs)))
  ELSE FALSE

\* the raw lines a protocol file may hold: empty, whitespace only, a line
\* that needs no trimming, a line with whitespace around and inside
LineSet == { <<>>, <<" ", "\t">>, <<"e'">>, <<" ", "a", " ", "b", "\t">> }

\* what one read of the channel may deliver: nothing, valid text, a
\* truncated two-byte form (not valid UTF-8)
RxSet == { <<>>, <<195, 169>>, <<195>> }

\* the non-blank lines of a file, trimmed, in file order
RECURSIVE NonBlankTrimmed(_)
NonBlankTrimmed(ls) ==
  IF ls = <<>> THEN <<>>
  ELSE (IF TrimEnd(TrimStart(Head(ls))) = <<>> THEN <<>>
        ELSE << TrimEnd(TrimStart(Head(ls))) >>) \o NonBlankTrimmed(Tail(ls))

Min(a, b) == IF a < b THEN a ELSE b

(* ------------------------------ line settings -------------------------- *)
\* an Option<&str> of the command line: <<>> is None, <<v>> is Some(v)
unwrap_or(opt, default) == IF opt = <<>> THEN default ELSE opt[1]

IsDigit(c) == c \in {"0", "1", "2", "3", "4", "5", "6", "7", "8", "9"}

DigitChar(d) ==
  CASE d = 0 -> "0" [] d = 1 -> "1" [] d = 2 -> "2" [] d = 3 -> "3"
    [] d = 4 -> "4" [] d = 5 -> "5" [] d = 6 -> "6" [] d = 7 -> "7"
    [] d = 8 -> "8" [] d = 9 -> "9"

DigitVal(c) == CHOOSE d \in 0..9 : DigitChar(d) = c

\* the decimal form of a natural number
RECURSIVE Digits(_)
Digits(n) ==
  IF n < 10 THEN << DigitChar(n) >>
  ELSE Append(Digits(n \div 10), DigitChar(n % 10))

\* u32::MAX in decimal
U32MaxDigits == << "4", "2", "9", "4", "9", "6", "7", "2", "9", "5" >>

RECURSIVE StripZeros(_)
StripZeros(s) ==
  IF Len(s) > 1 /\ Head(s) = "0" THEN StripZeros(Tail(s)) ELSE s

\* order of two digit sequences of the same length
RECURSIVE DigitsGreater(_, _)
DigitsGreater(s, t) ==
  IF s = <<>> THEN FALSE
  ELSE IF Head(s) # Head(t) THEN DigitVal(Head(s)) > DigitVal(Head(t))
  ELSE DigitsGreater(Tail(s), Tail(t))

\* str::parse::<u32>(): an optional "+", then one or more digits, the value
\* at most u32::MAX; the result is "Err" or the value in decimal form
ParseU32(s) ==
  LET body == IF s # <<>> /\ Head(s) = "+" THEN Tail(s) ELSE s
      ds == StripZeros(body)
  IN IF body = <<>> \/ \E i \in 1..Len(body) : ~IsDigit(body[i]) THEN "Err"
     ELSE IF Len(ds) > Len(U32MaxDigits) THEN "Err"
     ELSE IF Len(ds) = Len(U32MaxDigits) /\ DigitsGreater(ds, U32MaxDigits)
       THEN "Err"
     ELSE ds

\* the lists of tty.rs
BaudRate == {1200, 2400, 4800, 9600, 19200, 38400, 57600, 115200}
DataBits == {"Five", "Six", "Seven", "Eight"}
FlowControl == {"None", "Software", "Hardware"}
Parity == {"None", "Odd", "Even"}
StopBits == {"One", "Two"}

\* the values of --baud-rate tried: a listed rate, one not listed, u32::MAX,
\* u32::MAX + 1, a word
BaudTokens ==
  { <<>>, << Digits(9600) >>, << Digits(12345) >>, << U32MaxDigits >>,
    << << "4", "2", "9", "4", "9", "6", "7", "2", "9", "6" >> >>,
    << << "f", "a", "s", "t" >> >> }

\* settings.baud_rate = ..parse::<u32>().unwrap().into() does not panic
baud_rate_parsed(a) == ParseU32(unwrap_or(a.baud_rate, Digits(9600))) # "Err"

\* no match of the line settings reaches its panic! arm
SettingsParsed(a) ==
  /\ baud_rate_parsed(a)
  /\ unwrap_or(a.data_bits, "Eight") \in {"Five", "Six", "Seven", "Eight"}
  /\ unwrap_or(a.flow_control, "None") \in {"None", "Software", "Hardware"}
  /\ unwrap_or(a.parity, "None") \in {"None", "Odd", "Even"}
  /\ unwrap_or(a.stop_bits, "One") \in {"One", "Two"}

(* ------------------------------ state ---------------------------------- *)
VARIABLES
  mode,        \* "pseudo" | "publisher": the subcommand of launch
  interval,    \* the configured interval
  delay,       \* Option<Duration>: <<>> is None, <<d>> is Some(d)
  rootKind,    \* what the root path names: "missing" | "file" | "dir"
  args,        \* the line-settings options of the publisher subcommand
  pc,          \* position of the driving thread
  depth,       \* number of visit_dirs frames inside their for loop
  entries,     \* directory entries the walk has been given so far
  openFiles,   \* file entries given whose callback has not returned Ok
  openDirs,    \* subdirectory entries given whose visit_dirs has not returned Ok
  fileLines,   \* raw lines read so far from the file being processed
  fileCalls,   \* the handler's arguments so far for the file being processed
  called,      \* the handler has been invoked in this walk
  allBlank,    \* every line read so far in this walk is blank after trimming
  arg,         \* `it`: the handler's argument
  ev,          \* events of the current handler invocation, in order
  hres,        \* result of the last handler invocation: "none" | "Ok" | "Err"
  holders,     \* threads holding the MutexGuard of the port
  poisoned,    \* the Mutex's poison flag
  opc,         \* another thread sharing the Arc<Mutex<..>>: "absent" | "idle" | "holding" | "dead"
  lastIO,      \* last read or write of the channel, and whether it was guarded
  wrote,       \* bytes the last port.write accepted
  rx,          \* bytes the last port.read delivered
  sinceStart,  \* ticks since the last handler invocation began (saturating)
  err,         \* error being propagated by `?`, "none" if none
  result       \* result of launch: "running" | "Ok" | an error

vars == << mode, interval, delay, rootKind, args, pc, depth, entries,
           openFiles, openDirs, fileLines,
           fileCalls, called, allBlank, arg, ev, hres, holders, poisoned, opc, lastIO, wrote,
           rx, sinceStart, err, result >>

\* saturation point of the clock: no comparison needs more
ClockCap == interval

\* no line-settings option is given: every unwrap_or default applies
NoArgs ==
  [baud_rate |-> <<>>, data_bits |-> <<>>, flow_control |-> <<>>,
   parity |-> <<>>, stop_bits |-> <<>>]

\* the state after the command line is matched, but for the configuration
InitRest ==
  /\ pc = "launch"
  /\ depth = 0
  /\ entries = 0
  /\ openFiles = 0
  /\ openDirs = 0
  /\ fileLines = <<>>
  /\ fileCalls = <<>>
  /\ called = FALSE
  /\ allBlank = TRUE
  /\ arg = <<>>
  /\ ev = <<>>
  /\ hres = "none"
  /\ holders = {}
  /\ poisoned = FALSE
  /\ lastIO = [op |-> "none", held |-> FALSE]
  /\ wrote = <<>>
  /\ rx = <<>>
  /\ sinceStart = 0
  /\ err = "none"
  /\ result = "running"

Init ==
  /\ mode \in {"pseudo", "publisher"}
  /\ interval \in 1..MaxInterval
  /\ delay \in {<<>>, <<1>>}
  /\ rootKind \in {"missing", "file", "dir"}
  /\ opc \in {"absent", "idle"}
  /\ args = NoArgs
  /\ InitRest


cfgVars == << mode, interval, delay, rootKind, args >>
walkVars == << depth, entries, openFiles, openDirs, fileLines,
              fileCalls, called, allBlank >>
lineVars == << arg, ev, hres, wrote, rx, lastIO, sinceStart >>
lockVars == << holders, poisoned >>

\* `?` on an Err: the error starts to propagate up the call stack
Raise(e) == err' = e /\ pc' = "unwind"

(* ------------------------------ launch --------------------------------- *)
\* Pseudo::new()? / open_serial_port(name, settings)? succeeded: the driver
\* calls protocols(path, &cb)
LaunchOk ==
  /\ pc = "launch"
  /\ mode = "publisher" => SettingsParsed(args)
  /\ pc' = "protocols"
  /\ UNCHANGED << cfgVars, walkVars, lineVars, lockVars, opc, err, result >>

\* the pair could not be created, or the device could not be opened
LaunchPortError ==
  /\ pc = "launch"
  /\ mode = "publisher" => SettingsParsed(args)
  /\ pc' = "done"
  /\ err' = "PortError"
  /\ result' = "PortError"
  /\ UNCHANGED << cfgVars, walkVars, lineVars, lockVars, opc >>

\* unwrap() of the failed parse, or a panic! arm of the matches of the line
\* settings: the process dies before the port is opened
LaunchPanic ==
  /\ pc = "launch"
  /\ mode = "publisher"
  /\ ~SettingsParsed(args)
  /\ pc' = "panicked"
  /\ result' = "panicked"
  /\ UNCHANGED << cfgVars, walkVars, lineVars, lockVars, opc, err >>

(* ------------------------------ visit_dirs ----------------------------- *)
\* a mutant of visit_dirs: no is_dir test, read_dir fails on the path
RootNotDir_read_dir_fails ==
  /\ pc = "protocols"
  /\ rootKind # "dir"
  /\ Raise("IoError")
  /\ UNCHANGED << cfgVars, walkVars, lineVars, lockVars, opc, result >>

\* visit_dirs(root): dir.is_dir() is false, the body is skipped, Ok(())
RootNotDir ==
  /\ pc = "protocols"
  /\ rootKind # "dir"
  /\ pc' = "done"
  /\ result' = "Ok"
  /\ UNCHANGED << cfgVars, walkVars, lineVars, lockVars, opc, err >>

\* visit_dirs(root): fs::read_dir(dir)? yields the iterator
RootReadDir ==
  /\ pc = "protocols"
  /\ rootKind = "dir"
  /\ depth' = 1
  /\ pc' = "dir"
  /\ UNCHANGED << cfgVars, entries, openFiles, openDirs, fileLines, fileCalls, called, allBlank, lineVars,
                  lockVars, opc, err, result >>

\* visit_dirs(root): fs::read_dir(dir)? fails
RootReadDirErr ==
  /\ pc = "protocols"
  /\ rootKind = "dir"
  /\ Raise("IoError")
  /\ UNCHANGED << cfgVars, walkVars, lineVars, lockVars, opc, result >>

\* the for loop of the top frame ends: visit_dirs returns Ok(()) to its caller
DirEnd ==
  /\ pc = "dir"
  /\ depth' = depth - 1
  /\ IF depth = 1
       THEN pc' = "done" /\ result' = "Ok" /\ UNCHANGED openDirs
       ELSE pc' = "dir" /\ openDirs' = openDirs - 1 /\ UNCHANGED result
  /\ UNCHANGED << cfgVars, entries, openFiles, fileLines, fileCalls, called, allBlank, lineVars,
                  lockVars, opc, err >>

\* `let entry = entry?` fails
DirEntryErr ==
  /\ pc = "dir"
  /\ entries < MaxEntries
  /\ Raise("IoError")
  /\ UNCHANGED << cfgVars, walkVars, lineVars, lockVars, opc, result >>

\* a mutant of the recursion: the directory entry is passed over
DirEntrySubdir_not_entered ==
  /\ pc = "dir"
  /\ entries < MaxEntries
  /\ entries' = entries + 1
  /\ openDirs' = openDirs + 1
  /\ UNCHANGED << cfgVars, pc, depth, openFiles, fileLines, fileCalls, called,
                  allBlank, lineVars, lockVars, opc, err, result >>

\* the entry is a directory: visit_dirs(&path, cb), whose read_dir succeeds
DirEntrySubdir ==
  /\ pc = "dir"
  /\ entries < MaxEntries
  /\ entries' = entries + 1
  /\ depth' = depth + 1
  /\ openDirs' = openDirs + 1
  /\ pc' = "dir"
  /\ UNCHANGED << cfgVars, openFiles, fileLines, fileCalls, called, allBlank, lineVars,
                  lockVars, opc, err, result >>

\* the entry is a directory whose read_dir fails
DirEntrySubdirErr ==
  /\ pc = "dir"
  /\ entries < MaxEntries
  /\ Raise("IoError")
  /\ UNCHANGED << cfgVars, walkVars, lineVars, lockVars, opc, result >>

(* ------------------------------ protocols ------------------------------ *)
\* the entry is not a directory: cb(&entry), File::open(file)? succeeds
DirEntryFile ==
  /\ pc = "dir"
  /\ entries < MaxEntries
  /\ entries' = entries + 1
  /\ openFiles' = openFiles + 1
  /\ fileLines' = <<>>
  /\ fileCalls' = <<>>
  /\ pc' = "lines"
  /\ UNCHANGED << cfgVars, depth, openDirs, called, allBlank, lineVars, lockVars, opc, err, result >>

\* File::open(file)? fails
FileOpenErr ==
  /\ pc = "dir"
  /\ entries < MaxEntries
  /\ Raise("IoError")
  /\ UNCHANGED << cfgVars, walkVars, lineVars, lockVars, opc, result >>

\* br.lines() is exhausted: the file callback returns Ok(())
LinesEnd ==
  /\ pc = "lines"
  /\ pc' = "dir"
  /\ openFiles' = openFiles - 1
  /\ UNCHANGED << cfgVars, depth, entries, openDirs, fileLines,
                  fileCalls, called, allBlank, lineVars, lockVars, opc, err, result >>

\* `let line = line?` fails (I/O error, or the line is not valid UTF-8)
LineErr ==
  /\ pc = "lines"
  /\ Len(fileLines) < MaxLines
  /\ Raise("IoError")
  /\ UNCHANGED << cfgVars, walkVars, lineVars, lockVars, opc, result >>

\* first position of the handler of the running driver
HandlerEntry == IF mode = "publisher" THEN "pub_sleep" ELSE "ps_lock"

\* a mutant of the loop body: the blank test is missing
LineBody_no_blank_test(l) ==
  /\ arg' = trim(l)
  /\ fileCalls' = Append(fileCalls, trim(l))
  /\ called' = TRUE
  /\ ev' = <<>> /\ hres' = "none" /\ wrote' = <<>> /\ rx' = <<>>
  /\ sinceStart' = 0
  /\ pc' = HandlerEntry
  /\ UNCHANGED lastIO

\* the body of `for line in br.lines()`: trim, and call cb unless empty
LineBody(l) ==
  IF trim(l) # <<>>
    THEN /\ arg' = trim(l)
         /\ fileCalls' = Append(fileCalls, trim(l))
         /\ called' = TRUE
         /\ ev' = <<>> /\ hres' = "none" /\ wrote' = <<>> /\ rx' = <<>>
         /\ sinceStart' = 0
         /\ pc' = HandlerEntry
         /\ UNCHANGED lastIO
    ELSE UNCHANGED << fileCalls, called, lineVars, pc >>

\* br.lines() yields the next line
NextLine ==
  /\ pc = "lines"
  /\ Len(fileLines) < MaxLines
  /\ \E l \in LineSet :
       /\ fileLines' = Append(fileLines, l)
       /\ allBlank' = (allBlank /\ TrimEnd(TrimStart(l)) = <<>>)
       /\ LineBody(l)
  /\ UNCHANGED << cfgVars, depth, entries, openFiles, openDirs, lockVars, opc, err, result >>

\* a mutant of the line loop: after a handler call the callback of the
\* file returns to the directory loop, the rest of the file unread
HandlerReturn_to_dir ==
  /\ pc = "ret"
  /\ pc' = "dir"
  /\ arg' = <<>> /\ ev' = <<>> /\ hres' = "none" /\ wrote' = <<>> /\ rx' = <<>>
  /\ lastIO' = [op |-> "none", held |-> FALSE]
  /\ UNCHANGED << cfgVars, walkVars, sinceStart, lockVars, opc, err, result >>

\* `cb(line)?` gets Ok(()): the closure's locals are gone and the loop goes on
HandlerReturn ==
  /\ pc = "ret"
  /\ pc' = "lines"
  /\ arg' = <<>> /\ ev' = <<>> /\ hres' = "none" /\ wrote' = <<>> /\ rx' = <<>>
  /\ lastIO' = [op |-> "none", held |-> FALSE]
  /\ UNCHANGED << cfgVars, walkVars, sinceStart, lockVars, opc, err, result >>

\* a mutant of the recursion: the result of the inner visit_dirs is dropped
\* and the loop of the outer frame goes on
Unwind_dropped_in_recursion ==
  /\ pc = "unwind"
  /\ IF depth > 1
       THEN depth' = depth - 1 /\ pc' = "dir" /\ UNCHANGED result
       ELSE pc' = "done" /\ result' = err /\ depth' = 0
  /\ UNCHANGED << cfgVars, entries, openFiles, openDirs, fileLines,
                  fileCalls, called, allBlank, lineVars, lockVars, opc, err >>

\* the error passes one visit_dirs frame, or leaves protocols and the driver
Unwind ==
  /\ pc = "unwind"
  /\ IF depth > 0
       THEN depth' = depth - 1 /\ UNCHANGED << pc, result >>
       ELSE pc' = "done" /\ result' = err /\ UNCHANGED depth
  /\ UNCHANGED << cfgVars, entries, openFiles, openDirs, fileLines, fileCalls, called, allBlank, lineVars,
                  lockVars, opc, err >>


(* ------------------------------ the port guard ------------------------- *)
\* a mutant of the lock: it is granted while another thread holds it
LockGranted_no_exclusion == ~poisoned

\* port.lock() returns Ok(guard): the Mutex is free and not poisoned
LockGranted == holders = {} /\ ~poisoned

\* port.lock() returns Err(PoisonError): the Mutex is free and poisoned
LockPoisoned == holders = {} /\ poisoned

\* the MutexGuard of the driver is dropped
Release == holders' = holders \ {"driver"}

Log(e) == ev' = Append(ev, e)

\* thread::sleep(d): at least d ticks pass
Sleep(d) == \E j \in 0..Jitter : sinceStart' = Min(sinceStart + d + j, ClockCap)

\* the buffer handed to port.write
WriteBytes(it) == as_bytes(it)

\* port.write(it.as_bytes())? returns Ok(len): the port took the first len
\* bytes of the buffer, len being any count up to its length
PortWrite(next) ==
  /\ \E len \in 0..Len(WriteBytes(arg)) :
       wrote' = SubSeq(WriteBytes(arg), 1, len)
  /\ lastIO' = [op |-> "write", held |-> "driver" \in holders]
  /\ Log("write")
  /\ pc' = next
  /\ UNCHANGED << cfgVars, walkVars, arg, hres, rx, sinceStart, lockVars,
                  opc, err, result >>

\* a mutant of the failed write: the guard outlives the closure
PortWriteErr_keeps_guard ==
  /\ lastIO' = [op |-> "write", held |-> "driver" \in holders]
  /\ ev' = ev \o << "write_err" >>
  /\ hres' = "Err"
  /\ Raise("IoError")
  /\ UNCHANGED << cfgVars, walkVars, arg, wrote, rx, sinceStart, lockVars,
                  opc, result >>

\* port.write(..)? returns Err: the closure returns it, dropping the guard
PortWriteErr ==
  /\ lastIO' = [op |-> "write", held |-> "driver" \in holders]
  /\ ev' = ev \o << "write_err", "release" >>
  /\ Release
  /\ hres' = "Err"
  /\ Raise("IoError")
  /\ UNCHANGED << cfgVars, walkVars, arg, wrote, rx, sinceStart, poisoned,
                  opc, result >>

\* port.read(buf)? returns Ok(len); info! decodes the bytes when the info
\* level is enabled, and from_utf8(..)? then returns the error of bad text
PortRead(next) ==
  /\ \E bs \in RxSet, infoEnabled \in BOOLEAN :
       /\ rx' = bs
       /\ IF infoEnabled /\ ~from_utf8_ok(bs)
            THEN /\ ev' = ev \o << "read", "release" >>
                 /\ Release
                 /\ hres' = "Err"
                 /\ Raise("Utf8Error")
            ELSE /\ Log("read")
                 /\ pc' = next
                 /\ UNCHANGED << holders, hres, err >>
  /\ lastIO' = [op |-> "read", held |-> "driver" \in holders]
  /\ UNCHANGED << cfgVars, walkVars, arg, wrote, sinceStart, poisoned, opc,
                  result >>

\* port.read(buf)? returns Err (a timeout included)
PortReadErr ==
  /\ lastIO' = [op |-> "read", held |-> "driver" \in holders]
  /\ ev' = ev \o << "read_err", "release" >>
  /\ Release
  /\ hres' = "Err"
  /\ Raise("IoError")
  /\ UNCHANGED << cfgVars, walkVars, arg, wrote, rx, sinceStart, poisoned,
                  opc, result >>

\* thread::sleep(delay); in the emulator the block of `buf` ends after it
SleepDelay(next) ==
  /\ delay # <<>>
  /\ Sleep(delay[1])
  /\ Log("sleep_delay")
  /\ rx' = <<>>
  /\ pc' = next
  /\ UNCHANGED << cfgVars, walkVars, arg, hres, wrote, lastIO, lockVars,
                  opc, err, result >>

(* ------------------------------ Pseudo::start -------------------------- *)
\* a mutant of the delay test of the emulator: the read and the delay are skipped
PsAfterLock_skip_read == "ps_write"

\* position after the guard is taken, in the emulator
PsAfterLock == IF delay # <<>> THEN "ps_read" ELSE "ps_write"

\* match port.lock() { Ok(mut port) => ..
PsLockOk ==
  /\ pc = "ps_lock"
  /\ LockGranted
  /\ holders' = holders \cup {"driver"}
  /\ Log("acquire")
  /\ pc' = PsAfterLock
  /\ UNCHANGED << cfgVars, walkVars, arg, hres, wrote, rx, lastIO, sinceStart,
                  poisoned, opc, err, result >>

\* a mutant of the Err arm: the lock error is returned with `?`
PsLockErr_abort ==
  /\ pc = "ps_lock"
  /\ LockPoisoned
  /\ Log("lock_err")
  /\ hres' = "Err"
  /\ Raise("LockError")
  /\ UNCHANGED << cfgVars, walkVars, arg, wrote, rx, lastIO, sinceStart,
                  lockVars, opc, result >>

\* .. Err(e) => error!(..) }: the line's I/O is skipped
PsLockErr ==
  /\ pc = "ps_lock"
  /\ LockPoisoned
  /\ Log("lock_err")
  /\ pc' = "ps_sleep"
  /\ UNCHANGED << cfgVars, walkVars, arg, hres, wrote, rx, lastIO, sinceStart,
                  lockVars, opc, err, result >>

PsRead == pc = "ps_read" /\ PortRead("ps_delay")

PsReadErr == pc = "ps_read" /\ PortReadErr

PsSleepDelay == pc = "ps_delay" /\ SleepDelay("ps_write")

PsWrite == pc = "ps_write" /\ PortWrite("ps_release")

PsWriteErr == pc = "ps_write" /\ PortWriteErr

\* a mutant of the emulator: the closure returns at the end of the Ok arm
PsRelease_skips_interval ==
  /\ pc = "ps_release"
  /\ Release
  /\ Log("release")
  /\ wrote' = <<>>
  /\ hres' = "Ok"
  /\ pc' = "ret"
  /\ UNCHANGED << cfgVars, walkVars, arg, rx, lastIO, sinceStart,
                  poisoned, opc, err, result >>

\* a mutant of the emulator: the guard lives until the closure returns
PsRelease_keeps_guard ==
  /\ pc = "ps_release"
  /\ wrote' = <<>>
  /\ pc' = "ps_sleep"
  /\ UNCHANGED << cfgVars, walkVars, arg, ev, hres, rx, lastIO, sinceStart,
                  lockVars, opc, err, result >>

\* the Ok arm ends: the guard is dropped, and `len` with it
PsRelease ==
  /\ pc = "ps_release"
  /\ Release
  /\ Log("release")
  /\ wrote' = <<>>
  /\ pc' = "ps_sleep"
  /\ UNCHANGED << cfgVars, walkVars, arg, hres, rx, lastIO, sinceStart,
                  poisoned, opc, err, result >>

\* a mutant of the interval sleep: it returns at once
PsSleepInterval_none ==
  /\ pc = "ps_sleep"
  /\ Log("sleep_interval")
  /\ hres' = "Ok"
  /\ pc' = "ret"
  /\ UNCHANGED << cfgVars, walkVars, arg, wrote, rx, lastIO, sinceStart,
                  lockVars, opc, err, result >>

\* thread::sleep(interval); Ok(())
PsSleepInterval ==
  /\ pc = "ps_sleep"
  /\ Sleep(interval)
  /\ Log("sleep_interval")
  /\ hres' = "Ok"
  /\ pc' = "ret"
  /\ UNCHANGED << cfgVars, walkVars, arg, wrote, rx, lastIO, lockVars, opc,
                  err, result >>

(* ------------------------------ publisher ------------------------------ *)
\* thread::sleep(interval)
PubSleepInterval ==
  /\ pc = "pub_sleep"
  /\ Sleep(interval)
  /\ Log("sleep_interval")
  /\ pc' = "pub_lock"
  /\ UNCHANGED << cfgVars, walkVars, arg, hres, wrote, rx, lastIO, lockVars,
                  opc, err, result >>

\* match port.lock() { Ok(mut port) => ..
PubLockOk ==
  /\ pc = "pub_lock"
  /\ LockGranted
  /\ holders' = holders \cup {"driver"}
  /\ Log("acquire")
  /\ pc' = "pub_write"
  /\ UNCHANGED << cfgVars, walkVars, arg, hres, wrote, rx, lastIO, sinceStart,
                  poisoned, opc, err, result >>

\* .. Err(e) => error!(..) }; Ok(())
PubLockErr ==
  /\ pc = "pub_lock"
  /\ LockPoisoned
  /\ Log("lock_err")
  /\ hres' = "Ok"
  /\ pc' = "ret"
  /\ UNCHANGED << cfgVars, walkVars, arg, wrote, rx, lastIO, sinceStart,
                  lockVars, opc, err, result >>

\* a mutant of the delay test of the publisher: the read is skipped
PubAfterWrite_never_reads == "pub_release"

\* position after the write, in the publisher
PubAfterWrite == IF delay # <<>> THEN "pub_delay" ELSE "pub_release"

PubWrite == pc = "pub_write" /\ PortWrite(PubAfterWrite)

PubWriteErr == pc = "pub_write" /\ PortWriteErr

PubSleepDelay == pc = "pub_delay" /\ SleepDelay("pub_read")

PubRead == pc = "pub_read" /\ PortRead("pub_release")

PubReadErr == pc = "pub_read" /\ PortReadErr

\* a mutant of the publisher: the guard is never dropped
PubRelease_keeps_guard ==
  /\ pc = "pub_release"
  /\ hres' = "Ok"
  /\ pc' = "ret"
  /\ UNCHANGED << cfgVars, walkVars, arg, ev, wrote, rx, lastIO, sinceStart,
                  lockVars, opc, err, result >>

\* the Ok arm ends: the guard is dropped; Ok(())
PubRelease ==
  /\ pc = "pub_release"
  /\ Release
  /\ Log("release")
  /\ hres' = "Ok"
  /\ pc' = "ret"
  /\ UNCHANGED << cfgVars, walkVars, arg, wrote, rx, lastIO, sinceStart,
                  poisoned, opc, err, result >>

(* ------------------------------ another holder of the session ---------- *)
\* another thread sharing the Arc<Mutex<..>> takes the guard
OtherLock ==
  /\ opc = "idle"
  /\ holders = {}
  /\ holders' = {"other"}
  /\ opc' = "holding"
  /\ UNCHANGED << cfgVars, walkVars, lineVars, pc, poisoned, err, result >>

\* it drops the guard
OtherUnlock ==
  /\ opc = "holding"
  /\ holders' = holders \ {"other"}
  /\ opc' = "idle"
  /\ UNCHANGED << cfgVars, walkVars, lineVars, pc, poisoned, err, result >>

\* it panics while holding the guard: the guard is dropped during the
\* unwinding, which poisons the Mutex
OtherPanic ==
  /\ opc = "holding"
  /\ holders' = holders \ {"other"}
  /\ poisoned' = TRUE
  /\ opc' = "dead"
  /\ UNCHANGED << cfgVars, walkVars, lineVars, pc, err, result >>

(* ------------------------------ specification -------------------------- *)
Next ==
  \/ LaunchOk \/ LaunchPortError
  \/ RootNotDir \/ RootReadDir \/ RootReadDirErr
  \/ DirEnd \/ DirEntryErr \/ DirEntrySubdir \/ DirEntrySubdirErr
  \/ DirEntryFile \/ FileOpenErr
  \/ LinesEnd \/ LineErr \/ NextLine \/ HandlerReturn
  \/ Unwind
  \/ PsLockOk \/ PsLockErr \/ PsRead \/ PsReadErr \/ PsSleepDelay
  \/ PsWrite \/ PsWriteErr \/ PsRelease \/ PsSleepInterval
  \/ PubSleepInterval \/ PubLockOk \/ PubLockErr \/ PubWrite \/ PubWriteErr
  \/ PubSleepDelay \/ PubRead \/ PubReadErr \/ PubRelease
  \/ OtherLock \/ OtherUnlock \/ OtherPanic

Spec == Init /\ [][Next]_vars


\* the start of the publisher subcommand over the values of its options
InitArgs ==
  /\ mode = "publisher"
  /\ interval = 1
  /\ delay = <<>>
  /\ rootKind = "dir"
  /\ opc = "absent"
  /\ args \in [baud_rate : BaudTokens,
               data_bits : {<<>>, <<"Five">>, <<"Eight">>, <<"Nine">>, <<"eight">>},
               flow_control : {<<>>, <<"Hardware">>, <<"None">>, <<"Xon">>},
               parity : {<<>>, <<"Odd">>, <<"Even">>, <<"Mark">>},
               stop_bits : {<<>>, <<"One">>, <<"Two">>, <<"Three">>}]
  /\ InitRest

NextArgs == LaunchOk \/ LaunchPortError \/ LaunchPanic

SpecArgs == InitArgs /\ [][NextArgs]_vars

\* the runs in which every call returns
InitLive ==
  /\ mode \in {"pseudo", "publisher"}
  /\ interval = 1
  /\ delay \in {<<>>, <<1>>}
  /\ rootKind \in {"missing", "file", "dir"}
  /\ opc \in {"absent", "idle"}
  /\ args = NoArgs
  /\ InitRest

\* a step of the driving thread other than the return of port.lock()
DriverStep ==
  \/ LaunchOk \/ LaunchPortError
  \/ RootNotDir \/ RootReadDir \/ RootReadDirErr
  \/ DirEnd \/ DirEntryErr \/ DirEntrySubdir \/ DirEntrySubdirErr
  \/ DirEntryFile \/ FileOpenErr
  \/ LinesEnd \/ LineErr \/ NextLine \/ HandlerReturn
  \/ Unwind
  \/ PsRead \/ PsReadErr \/ PsSleepDelay
  \/ PsWrite \/ PsWriteErr \/ PsRelease \/ PsSleepInterval
  \/ PubSleepInterval \/ PubWrite \/ PubWriteErr
  \/ PubSleepDelay \/ PubRead \/ PubReadErr \/ PubRelease

\* port.lock() returns
LockReturns == PsLockOk \/ PsLockErr \/ PubLockOk \/ PubLockErr

\* the other thread gives the guard up
OtherGivesUp == OtherUnlock \/ OtherPanic

NextLive == DriverStep \/ LockReturns \/ OtherLock \/ OtherGivesUp

\* every call of the driving thread returns: its steps are taken, a guard
\* held by another thread is given up, and a lock call that could return
\* again and again does return
SpecLive ==
  /\ InitLive /\ [][NextLive]_vars
  /\ WF_vars(DriverStep)
  /\ WF_vars(OtherGivesUp)
  /\ SF_vars(LockReturns)

(* ------------------------------ properties ----------------------------- *)
InHandler == pc \in {"ps_lock", "ps_read", "ps_delay", "ps_write", "ps_release",
                     "ps_sleep", "pub_sleep", "pub_lock", "pub_write",
                     "pub_delay", "pub_read", "pub_release"}

Has(e) == \E i \in 1..Len(ev) : ev[i] = e

IsPrefix(s, t) == Len(s) <= Len(t) /\ SubSeq(t, 1, Len(s)) = s

\* the handler is being invoked for a line that is not the first of the walk
InvokedAgain == pc = "lines" /\ pc' = HandlerEntry /\ called

\* C1: within every protocol file the handler has been invoked exactly once
\* for each line read so far that is non-empty after trimming, with the
\* trimmed text, in the file's line order, and for no other line.
C1_HandlerPerNonBlankLine == fileCalls = NonBlankTrimmed(fileLines)

C1_Witness ==
  /\ fileLines = << <<" ", "a", " ", "b", "\t">>, <<>>, <<" ", "\t">> >>
  /\ fileCalls = << <<"a", " ", "b">> >>
  /\ pc = "lines"

\* the events of one line in the publisher whose guard is acquired
PubExpected ==
  IF delay # <<>>
    THEN << "sleep_interval", "acquire", "write", "sleep_delay", "read", "release" >>
    ELSE << "sleep_interval", "acquire", "write", "release" >>

\* C2: in the publisher every line whose handler returns with the guard
\* acquired has performed exactly sleep(interval), acquire, one write,
\* sleep(delay), one read, release when a delay is configured, and
\* sleep(interval), acquire, write, release when it is not; until then its
\* events are a prefix of that sequence, and without a delay no read and no
\* delay sleep ever occurs.
C2_PublisherSequence ==
  mode = "publisher" =>
    /\ (pc = "ret" /\ Has("acquire")) => ev = PubExpected
    /\ (InHandler /\ ~Has("lock_err")) => IsPrefix(ev, PubExpected)
    /\ delay = <<>> => (~Has("read") /\ ~Has("sleep_delay") /\ ~Has("read_err")
                        /\ lastIO.op # "read" /\ rx = <<>>)

C2_Witness ==
  /\ mode = "publisher" /\ delay # <<>> /\ pc = "ret"
  /\ ev = << "sleep_interval", "acquire", "write", "sleep_delay", "read", "release" >>

\* C3 as stated: in the emulator with a delay, on every line after the
\* first the delay sleep precedes the read (and the read precedes the write).
C3_DelayBeforeRead ==
  (mode = "pseudo" /\ delay # <<>> /\ Len(fileCalls) >= 2) =>
    /\ \A i \in 1..Len(ev) :
         ev[i] = "read" => \E j \in 1..(i - 1) : ev[j] = "sleep_delay"
    /\ \A i \in 1..Len(ev) :
         ev[i] = "write" => \E j \in 1..(i - 1) : ev[j] = "read"

\* C3 amended: in the emulator with a delay, on every line, the first
\* included, the read comes first, the delay sleep follows the read
\* directly and the write follows the delay sleep directly.
C3_ReadDelayWrite ==
  (mode = "pseudo" /\ delay # <<>>) =>
    \A i \in 1..Len(ev) :
      /\ ev[i] = "read" => (i = 2 /\ ev[1] = "acquire")
      /\ ev[i] = "sleep_delay" => (i > 1 /\ ev[i - 1] = "read")
      /\ ev[i] = "write" => (i > 1 /\ ev[i - 1] = "sleep_delay")

C3_Witness ==
  /\ mode = "pseudo" /\ delay # <<>> /\ Len(fileCalls) >= 2
  /\ ev = << "acquire", "read", "sleep_delay", "write" >>

\* C4: in both drivers, whenever the handler is invoked for a line that is
\* not the first, at least `interval` has passed since the invocation for
\* the line before began (also when that line's I/O was skipped).
C4_IntervalBetweenLines == [][InvokedAgain => sinceStart >= interval]_vars

C4_Witness ==
  /\ Len(fileCalls) >= 2 /\ pc = HandlerEntry /\ ev = <<>>
  /\ interval = MaxInterval /\ poisoned

\* C5: at most one thread holds the guard, and every read and write of the
\* channel is made by a driver that holds it.
C5_GuardedIO ==
  /\ Cardinality(holders) <= 1
  /\ lastIO.op # "none" => lastIO.held
  /\ pc \in {"ps_read", "ps_delay", "ps_write", "pub_write", "pub_delay",
             "pub_read"} => holders = {"driver"}

C5_Witness == lastIO.op = "read" /\ opc = "idle" /\ holders = {"driver"}

\* C6: when the lock returns an error for a line, the handler reads and
\* writes nothing for it and returns Ok, no error propagates, and the
\* loader goes on with the lines after it (the line is not read again).
C6_LockErrorSkipsLine ==
  /\ [](Has("lock_err") =>
          /\ ~Has("read") /\ ~Has("write") /\ ~Has("read_err") /\ ~Has("write_err")
          /\ lastIO.op = "none" /\ wrote = <<>> /\ rx = <<>>
          /\ hres # "Err" /\ err = "none" /\ result = "running"
          /\ pc \in {"ps_sleep", "ret"}
          /\ pc = "ret" => hres = "Ok")
  /\ [][(Has("lock_err") /\ pc = "ret" /\ pc' # pc)
          => (pc' = "lines" /\ fileLines' = fileLines /\ fileCalls' = fileCalls
              /\ err' = "none")]_vars

C6_Witness == Has("lock_err") /\ pc = "ret" /\ hres = "Ok" /\ Len(fileLines) < MaxLines

\* C7: once an error has been raised nothing but its propagation happens:
\* no handler invocation, no read or write, no further entry or line is
\* taken, the error is not replaced, and it is the result returned.
C7_FirstErrorStops ==
  /\ [](err # "none" => pc \in {"unwind", "done"})
  /\ [](result \notin {"running", "Ok"} => result = err)
  /\ [](pc = "done" => result = (IF err = "none" THEN "Ok" ELSE err))
  /\ [][err # "none" =>
          /\ err' = err
          /\ fileCalls' = fileCalls /\ called' = called /\ fileLines' = fileLines
          /\ entries' = entries /\ ev' = ev /\ lastIO' = lastIO]_vars

C7_Witness ==
  /\ result = "Utf8Error" /\ pc = "done" /\ hres = "Err"
  /\ Len(fileLines) < MaxLines /\ entries < MaxEntries

\* C8: whenever a write succeeds with the guard held, the bytes the port
\* took are exactly the bytes of the trimmed line.
C8_WrittenEqualsLine ==
  (Has("write") /\ lastIO.held) => wrote = as_bytes(TrimEnd(TrimStart(arg)))

\* C9: the loader called on a root that is missing or not a directory
\* invokes no handler, touches neither the port nor the file system, raises
\* no error and returns Ok.
C9_NonDirRootNoOp ==
  (rootKind # "dir" /\ pc # "launch" /\ result # "PortError") =>
    /\ ~called /\ ev = <<>> /\ lastIO.op = "none" /\ entries = 0 /\ depth = 0
    /\ err = "none"
    /\ pc \in {"protocols", "done"}
    /\ pc = "done" => result = "Ok"

C9_Witness == rootKind = "file" /\ pc = "done" /\ result = "Ok"

\* C10: as long as every line read in the walk is blank the handler has not
\* been invoked and the port not touched, and such a walk that ends without
\* a file system error returns Ok.
C10_AllBlankNoCalls ==
  allBlank =>
    /\ ~called /\ fileCalls = <<>> /\ ev = <<>> /\ lastIO.op = "none"
    /\ hres = "none"
    /\ (pc = "done" /\ err = "none") => result = "Ok"

C10_Witness ==
  /\ allBlank /\ pc = "done" /\ result = "Ok" /\ entries = MaxEntries
  /\ fileLines = << <<" ", "\t">>, <<>> >>

\* C11: when the walk returns success no directory entry it was given is
\* left unvisited: every file entry was opened when it was given, as a fresh
\* file, and read to its end with the handler invoked exactly once per
\* non-blank line of it, in order; every subdirectory entry was entered when
\* it was given and its visit returned; no file is opened twice.
C11_EveryFileOnce ==
  /\ [](openFiles \in {0, 1} /\ openDirs >= 0)
  /\ []((pc = "done" /\ result = "Ok") =>
          (openFiles = 0 /\ openDirs = 0 /\ depth = 0 /\ err = "none"))
  /\ [][entries' # entries =>
          /\ entries' = entries + 1
          /\ \/ (openFiles' = openFiles + 1 /\ openDirs' = openDirs
                  /\ pc' = "lines" /\ fileLines' = <<>> /\ fileCalls' = <<>>)
             \/ (openDirs' = openDirs + 1 /\ openFiles' = openFiles
                  /\ depth' = depth + 1 /\ pc' = "dir")]_vars
  /\ [][openFiles' # openFiles =>
          \/ (openFiles' = openFiles + 1 /\ entries' = entries + 1)
          \/ (openFiles' = openFiles - 1 /\ pc = "lines" /\ pc' = "dir"
              /\ fileCalls = NonBlankTrimmed(fileLines) /\ err = "none")]_vars
  /\ [][openDirs' # openDirs =>
          \/ (openDirs' = openDirs + 1 /\ entries' = entries + 1)
          \/ (openDirs' = openDirs - 1 /\ pc = "dir" /\ depth' = depth - 1
              /\ openFiles = 0 /\ err = "none")]_vars

C11_Witness ==
  /\ pc = "done" /\ result = "Ok" /\ entries = MaxEntries
  /\ Len(fileLines) = 2 /\ Len(fileCalls) = 1 /\ openFiles = 0 /\ openDirs = 0

\* the driver is between port.lock() returning Ok and the end of the Ok arm
InCriticalSection ==
  pc \in {"ps_read", "ps_delay", "ps_write", "ps_release",
          "pub_write", "pub_delay", "pub_read", "pub_release"}

\* C12: the driver holds the guard only inside a line's critical section:
\* once the handler has returned, with Ok or with a write, read or decode
\* error, the driver's guard is dropped; the driver never poisons the Mutex
\* (it is poisoned only when another thread died holding the guard), so
\* whenever the driver is outside the critical section and no other thread
\* holds or has poisoned the guard, port.lock() would succeed.
C12_GuardReleased ==
  /\ [](~InCriticalSection => "driver" \notin holders)
  /\ [](hres \in {"Ok", "Err"} => "driver" \notin holders)
  /\ [](poisoned => opc = "dead")
  /\ []((~InCriticalSection /\ opc \in {"absent", "idle"}) => LockGranted)
  /\ [][poisoned' # poisoned => (opc = "holding" /\ opc' = "dead")]_vars

C12_Witness ==
  /\ hres = "Err" /\ err = "IoError" /\ Has("write_err") /\ pc = "done"
  /\ holders = {} /\ ~poisoned /\ opc = "idle"

\* C13 as stated: a failed read, a failed write, or received bytes that are
\* not valid UTF-8 make the handler of the line return an error that is
\* propagated (and, by C7, nothing follows it).
C13_IOFailureAborts ==
  /\ (Has("read_err") \/ Has("write_err")) => (hres = "Err" /\ err = "IoError")
  /\ (Has("read") /\ ~from_utf8_ok(rx)) => (hres = "Err" /\ err = "Utf8Error")

\* the option is absent, or its value is in the recognized set
Recognized(opt, set) == opt = <<>> \/ opt[1] \in set

\* C14 as stated: in publisher mode the port is opened and the replay
\* started only with every given line setting in its recognized set, the
\* baud rate in {1200, .., 115200} included.
C14_UnrecognizedIsFatal ==
  (mode = "publisher" /\ pc \notin {"launch", "panicked"}) =>
    /\ Recognized(args.baud_rate, { Digits(b) : b \in BaudRate })
    /\ Recognized(args.data_bits, DataBits)
    /\ Recognized(args.flow_control, FlowControl)
    /\ Recognized(args.parity, Parity)
    /\ Recognized(args.stop_bits, StopBits)

\* the events of one line in the emulator whose guard is acquired
PsExpected ==
  IF delay # <<>>
    THEN << "acquire", "read", "sleep_delay", "write", "release", "sleep_interval" >>
    ELSE << "acquire", "write", "release", "sleep_interval" >>

\* C15: in the emulator every line whose handler returns with the guard
\* acquired, the first line included, has performed exactly acquire, one
\* read, sleep(delay), write, release, sleep(interval) when a delay is
\* configured, and acquire, write, release, sleep(interval) when it is not;
\* until then its events are a prefix of that sequence, and without a delay
\* no read and no delay sleep ever occurs.
C15_EmulatorSequence ==
  mode = "pseudo" =>
    /\ (pc = "ret" /\ Has("acquire")) => ev = PsExpected
    /\ (InHandler /\ ~Has("lock_err")) => IsPrefix(ev, PsExpected)
    /\ delay = <<>> => (~Has("read") /\ ~Has("sleep_delay") /\ ~Has("read_err")
                        /\ lastIO.op # "read" /\ rx = <<>>)

C15_Witness ==
  /\ mode = "pseudo" /\ delay # <<>> /\ pc = "ret"
  /\ entries = 1 /\ Len(fileLines) = 1 /\ Len(fileCalls) = 1
  /\ ev = << "acquire", "read", "sleep_delay", "write", "release", "sleep_interval" >>

\* the step appends event e as the last event of the line
Logs(e) == Len(ev') > Len(ev) /\ ev'[Len(ev')] = e

\* C17: the driver does not hold the guard before, during or after the
\* interval sleep, so a live thread sharing the session can take the guard
\* then; the delay sleep is made with the guard held by the driver.
C17_IntervalSleepUnguarded ==
  /\ [](pc \in {"ps_sleep", "pub_sleep"} => "driver" \notin holders)
  /\ []((pc \in {"ps_sleep", "pub_sleep"} /\ opc = "idle") => ENABLED OtherLock)
  /\ [](pc \in {"ps_delay", "pub_delay"} => holders = {"driver"})
  /\ [][Logs("sleep_interval") =>
          ("driver" \notin holders /\ "driver" \notin holders')]_vars
  /\ [][Logs("sleep_delay") =>
          (holders = {"driver"} /\ holders' = {"driver"})]_vars

C17_Witness ==
  /\ pc = "ps_sleep" /\ Has("release") /\ holders = {"other"} /\ opc = "holding"
  /\ Len(fileCalls) = 1 /\ Len(fileLines) < MaxLines

\* number of events e of the current line
Count(e) == Cardinality({ i \in 1..Len(ev) : ev[i] = e })

\* in a run of the single driver the guard is free and not poisoned whenever
\* the handler is entered, the lock is granted at once and never fails, and
\* a handler that returns Ok has called write exactly once
SingleDriverNeverSkips ==
  opc = "absent" =>
    /\ ~poisoned /\ holders \subseteq {"driver"}
    /\ pc \in {"ps_lock", "pub_sleep", "pub_lock"} => holders = {}
    /\ pc \in {"ps_lock", "pub_lock"} => LockGranted
    /\ ~Has("lock_err")
    /\ (pc = "ret" /\ hres = "Ok") =>
         (Count("write") = 1 /\ Has("acquire") /\ lastIO.held)

\* C18 as stated: in a run of the single driver the guard is free and not
\* poisoned at the start of every handler invocation, the lock never blocks
\* and never fails, no line's I/O is skipped, and every handler invocation
\* that is about to return success has written its line, once: the bytes
\* the channel took are the bytes of the line.
C18_SingleDriverWritesEveryLine ==
  /\ SingleDriverNeverSkips
  /\ (opc = "absent" /\ pc \in {"ps_release", "pub_release"}) =>
       (Count("write") = 1 /\ wrote = as_bytes(arg))

\* the step invokes the handler
Invokes == pc' = HandlerEntry /\ pc # pc'

\* C19: a file is being processed exactly while the walk is in its line
\* loop or in the handler; the handler is invoked only from the line loop
\* of that file, for the line just read from it, and its calls are appended
\* to the calls of that file; the walk takes a new directory entry only
\* when no file is being processed, and then the entry of the innermost
\* directory being visited; the loop of a parent directory goes on only
\* after the visit of the subdirectory has returned with no file in
\* process; a file is left only at the end of its lines or by an error.
C19_NoInterleaving ==
  /\ [](err = "none" =>
          openFiles = (IF InHandler \/ pc \in {"lines", "ret"} THEN 1 ELSE 0))
  /\ [](err = "none" =>
          openDirs = (IF depth > 0 THEN depth - 1 ELSE 0))
  /\ [][Invokes =>
          /\ pc = "lines" /\ openFiles = 1 /\ openFiles' = 1
          /\ entries' = entries /\ depth' = depth
          /\ Len(fileLines') = Len(fileLines) + 1
          /\ SubSeq(fileLines', 1, Len(fileLines)) = fileLines
          /\ fileCalls' = Append(fileCalls, arg')]_vars
  /\ [][entries' # entries => (pc = "dir" /\ openFiles = 0 /\ err = "none")]_vars
  /\ [][(fileLines' # fileLines \/ fileCalls' # fileCalls) =>
          \/ (pc = "lines" /\ entries' = entries /\ depth' = depth
              /\ Len(fileLines') = Len(fileLines) + 1)
          \/ (pc = "dir" /\ entries' = entries + 1
              /\ fileLines' = <<>> /\ fileCalls' = <<>>)]_vars
  /\ [][(pc \in {"lines", "ret"} \/ InHandler) =>
          \/ (pc' \in {"lines", "ret", "unwind"} \/ pc' \in
                {"ps_lock", "ps_read", "ps_delay", "ps_write", "ps_release",
                 "ps_sleep", "pub_sleep", "pub_lock", "pub_write",
                 "pub_delay", "pub_read", "pub_release"})
          \/ (pc = "lines" /\ pc' = "dir" /\ openFiles' = 0
              /\ fileCalls = NonBlankTrimmed(fileLines))]_vars
  /\ [][(depth' < depth /\ err' = "none") =>
          (pc = "dir" /\ openFiles = 0 /\ depth' = depth - 1)]_vars

C19_Witness ==
  /\ pc = "ret" /\ hres = "Ok" /\ depth = 2 /\ entries = MaxEntries
  /\ openFiles = 1 /\ openDirs = 1 /\ Len(fileLines) = 2 /\ Len(fileCalls) = 2

\* C16: when every read, write and lock call returns, the run of the driver
\* over a finite tree ends; it ends with Ok only by the walk leaving the
\* root directory with nothing pending (or the root not being a directory),
\* and otherwise with the error that was raised; once ended it stays ended.
C16_Terminates ==
  /\ <>(pc = "done")
  /\ [](pc = "done" =>
          \/ (result = "Ok" /\ err = "none" /\ depth = 0
              /\ openFiles = 0 /\ openDirs = 0)
          \/ (result = err /\ err \in {"PortError", "IoError", "Utf8Error"}))
  /\ [][(pc # "done" /\ pc' = "done") =>
          \/ (result' = "Ok" /\ pc = "dir" /\ depth = 1)
          \/ (result' = "Ok" /\ pc = "protocols" /\ rootKind # "dir")
          \/ (result' # "Ok" /\ pc \in {"launch", "unwind"})]_vars
  /\ [][pc = "done" => (pc' = "done" /\ result' = result)]_vars

C16_Witness ==
  /\ pc = "done" /\ result = "Ok" /\ mode = "publisher" /\ called
  /\ opc = "dead" /\ entries = MaxEntries /\ Len(fileLines) = MaxLines

====
